---- MODULE Spec2Model ----
(***************************************************************************)
(* A model of the trading bot of shelbyd/lhava_take_home:                  *)
(*   src/src/strategy/mod.rs  the strategies (Empty, AlwaysBuy, AlwaysSell,*)
(*                            Threshold, ExponentialMovingAverage) and     *)
(*                            Config::into_dyn                             *)
(*   src/src/main.rs          the driver loop and poll_next_block          *)
(*                                                                         *)
(* f64 values are modelled as exact reduced rationals [n, d].  Every value *)
(* the model feeds to the code (prices, thresholds, carries) is a small    *)
(* dyadic rational, and so is every value computed from them within the    *)
(* bounds; on such values the f64 operations *, +, -, <=, >= are exact, so *)
(* the rational arithmetic below is what the compiled code computes.  NaN, *)
(* infinities and carries such as 0.9 (not a dyadic rational) are outside  *)
(* the modelled inputs.                                                    *)
(*                                                                         *)
(* Option<T> is modelled as a sequence: << >> is None, <<x>> is Some(x).   *)
(*                                                                         *)
(* Spec is one strategy, built from any configuration and then called with *)
(* any prices, as a caller of the strategy module may; DriverSpec is the   *)
(* loop of main(), which stops at the first trade.                         *)
(***************************************************************************)
EXTENDS Integers, Sequences, FiniteSets

VARIABLES
    config,       \* the deserialized strategy::Config
    strategy,     \* the Box<dyn Strategy> built by Config::into_dyn
    manual,       \* a hand-constructed strategy fed the same prices (Option)
    prices,       \* the raw ctx.price_lossy of every trade() call so far
    ret,          \* what the last trade() call returned (Option<Trade>)
    panicked,     \* TRUE once a trade() call has panicked
    inner_ctx,    \* the TradeContexts the last trade() call handed to self.inner
    inner_ret,    \* what self.inner returned on the last trade() call
    manual_ret,   \* what the last trade() call on `manual` returned
    manual_panicked,
    pc,           \* the driver's position in main()
    last_block,   \* main's `last_block: Option<u64>`
    block,        \* main's `block`
    observed,     \* every number provider.get_block_number() has reported
    trade_blocks, \* the block of every strategy.trade() call of the driver
    handed        \* the trades handed to execution (past the let-else at line 86)

strategy_vars == <<config, strategy, manual, prices, ret, panicked, inner_ctx,
                   inner_ret, manual_ret, manual_panicked>>
driver_vars == <<pc, last_block, block, observed, trade_blocks, handed>>
vars == <<strategy_vars, driver_vars>>

---------------------------------------------------------------------------
(* Bounds *)

\* trade() calls per run
MaxCalls == 3
\* raw prices are 0, 10, ..., 10 * MaxPrice
MaxPrice == 4
\* block numbers the provider reports are 1 .. MaxBlock
MaxBlock == 3
\* get_block_number() calls per run of the driver
MaxPolls == 4

---------------------------------------------------------------------------
(* f64 on exactly representable values *)

None == << >>
Some(x) == <<x>>

Abs(x) == IF x < 0 THEN -x ELSE x

RECURSIVE Gcd(_, _)
Gcd(a, b) == IF b = 0 THEN a ELSE Gcd(b, a % b)

\* the f64 with value n / d (d > 0), in lowest terms
F64(n, d) ==
    LET g == Gcd(Abs(n), d)
    IN  [n |-> n \div g, d |-> d \div g]

FInt(i) == F64(i, 1)
FMul(a, b) == F64(a.n * b.n, a.d * b.d)
FAdd(a, b) == F64(a.n * b.d + b.n * a.d, a.d * b.d)
FSub(a, b) == F64(a.n * b.d - b.n * a.d, a.d * b.d)
FLe(a, b) == a.n * b.d <= b.n * a.d
FGe(a, b) == a.n * b.d >= b.n * a.d

---------------------------------------------------------------------------
(* strategy/mod.rs: amounts *)

\* FractionInput::Int(i)
FractionInputInt(i) == [kind |-> "Int", i |-> i]
\* FractionInput::Fraction { numerator, denominator }
FractionInputFraction(n, d) == [kind |-> "Fraction", numerator |-> n, denominator |-> d]

\* a panic: the call unwinds instead of returning, and main, which catches
\* nothing, ends with it
Panic == [panic |-> "Fraction::new: the denominator is zero"]
IsPanic(x) == "panic" \in DOMAIN x

\* uniswap_sdk_core's Fraction::new: it keeps numerator and denominator as
\* given (no reduction) and asserts that the denominator is not zero
FractionNew(numerator, denominator) ==
    IF denominator = 0
    THEN Panic
    ELSE [numerator |-> numerator, denominator |-> denominator]

\* a slip: the struct built field by field, not through Fraction::new
FractionInputIntoUnchecked(self) ==
    IF self.kind = "Int"
    THEN [numerator |-> self.i, denominator |-> 1]
    ELSE [numerator |-> self.numerator, denominator |-> self.denominator]

\* impl Into<Fraction> for FractionInput
FractionInputInto(self) ==
    IF self.kind = "Int"
    THEN FractionNew(self.i, 1)
    ELSE FractionNew(self.numerator, self.denominator)

\* Trade::Buy { amount } / Trade::Sell { amount }
Buy(amount) == [kind |-> "Buy", amount |-> amount]
Sell(amount) == [kind |-> "Sell", amount |-> amount]

\* TradeContext { price_lossy }
TradeContext(price) == [price_lossy |-> price]

---------------------------------------------------------------------------
(* strategy/mod.rs: the strategies.  A trade() call is modelled by the     *)
(* record of its outcome:                                                  *)
(*   self       the strategy object after the call (&mut self)            *)
(*   ret        the Option<Trade> returned (None when the call panicked)  *)
(*   panicked   whether the call panicked instead of returning            *)
(*   inner_ctx  the contexts it passed to self.inner.trade, in order      *)
(*   inner_ret  what self.inner.trade returned to it                      *)
(***************************************************************************)

\* Some(made) is returned unless the conversion of the amount panicked
Outcome(self, amount, made) ==
    [self |-> self,
     ret |-> IF IsPanic(amount) THEN None ELSE Some(made),
     panicked |-> IsPanic(amount),
     inner_ctx |-> << >>,
     inner_ret |-> None]

NoTrade(self) ==
    [self |-> self, ret |-> None, panicked |-> FALSE,
     inner_ctx |-> << >>, inner_ret |-> None]

\* impl Strategy for AlwaysBuy
AlwaysBuyTrade(self, ctx) ==
    Outcome(self, FractionInputInto(self.v), Buy(FractionInputInto(self.v)))

\* impl Strategy for AlwaysSell
AlwaysSellTrade(self, ctx) ==
    Outcome(self, FractionInputInto(self.v), Sell(FractionInputInto(self.v)))

\* impl Strategy for Empty
EmptyTrade(self, ctx) == NoTrade(self)

\* impl Strategy for Threshold
ThresholdTrade(self, ctx) ==
    IF self.buy # None
       /\ FLe(ctx.price_lossy, self.buy[1].at)
    THEN Outcome(self, FractionInputInto(self.buy[1].amount),
                 Buy(FractionInputInto(self.buy[1].amount)))
    ELSE IF self.sell # None
            /\ FGe(ctx.price_lossy, self.sell[1].at)
         THEN Outcome(self, FractionInputInto(self.sell[1].amount),
                      Sell(FractionInputInto(self.sell[1].amount)))
         ELSE NoTrade(self)

\* a slip: the weights of the old and the new price exchanged
EmaPriceSwapped(last, carry, price_lossy) ==
    IF last = None
    THEN price_lossy
    ELSE FAdd(FMul(last[1], FSub(FInt(1), carry)), FMul(price_lossy, carry))

\* ExponentialMovingAverage::trade, lines 151-154: the smoothed price
EmaPrice(last, carry, price_lossy) ==
    IF last = None
    THEN price_lossy
    ELSE FAdd(FMul(last[1], carry), FMul(price_lossy, FSub(FInt(1), carry)))

RECURSIVE trade(_, _)

\* a slip: `last` stored only when the inner strategy trades
EmaTradeStoreOnTrade(self, ctx) ==
    LET price == EmaPrice(self.last, self.carry, ctx.price_lossy)
        r == trade(self.inner, TradeContext(price))
    IN  [self |-> [self EXCEPT !.last = IF r.ret = None THEN @ ELSE Some(price),
                               !.inner = r.self],
         ret |-> r.ret,
         panicked |-> r.panicked,
         inner_ctx |-> <<TradeContext(price)>>,
         inner_ret |-> r.ret]

\* a slip: the inner strategy given the caller's context, not the smoothed one
EmaTradeRawCtx(self, ctx) ==
    LET price == EmaPrice(self.last, self.carry, ctx.price_lossy)
        r == trade(self.inner, ctx)
    IN  [self |-> [self EXCEPT !.last = Some(price), !.inner = r.self],
         ret |-> r.ret,
         panicked |-> r.panicked,
         inner_ctx |-> <<ctx>>,
         inner_ret |-> r.ret]

\* impl Strategy for ExponentialMovingAverage
EmaTrade(self, ctx) ==
    LET price == EmaPrice(self.last, self.carry, ctx.price_lossy)
        r == trade(self.inner, TradeContext(price))
    IN  [self |-> [self EXCEPT !.last = Some(price), !.inner = r.self],
         ret |-> r.ret,
         panicked |-> r.panicked,
         inner_ctx |-> <<TradeContext(price)>>,
         inner_ret |-> r.ret]

\* Strategy::trade through the Box<dyn Strategy>
trade(self, ctx) ==
    CASE self.type = "Empty" -> EmptyTrade(self, ctx)
      [] self.type = "AlwaysBuy" -> AlwaysBuyTrade(self, ctx)
      [] self.type = "AlwaysSell" -> AlwaysSellTrade(self, ctx)
      [] self.type = "Threshold" -> ThresholdTrade(self, ctx)
      [] self.type = "ExponentialMovingAverage" -> EmaTrade(self, ctx)

---------------------------------------------------------------------------
(* strategy/mod.rs: Config and Config::into_dyn *)

ConfigEmpty == [tag |-> "empty"]
ConfigAlwaysBuy(v) == [tag |-> "always_buy", v |-> v]
ConfigAlwaysSell(v) == [tag |-> "always_sell", v |-> v]
ConfigThreshold(buy, sell) == [tag |-> "threshold", buy |-> buy, sell |-> sell]
ConfigEma(carry, inner) == [tag |-> "ema", carry |-> carry, inner |-> inner]

ThresholdPoint(at, amount) == [at |-> at, amount |-> amount]

\* the strategy objects
Empty == [type |-> "Empty"]
AlwaysBuy(v) == [type |-> "AlwaysBuy", v |-> v]
AlwaysSell(v) == [type |-> "AlwaysSell", v |-> v]
Threshold(buy, sell) == [type |-> "Threshold", buy |-> buy, sell |-> sell]
ExponentialMovingAverage(inner, carry, last) ==
    [type |-> "ExponentialMovingAverage",
     inner |-> inner, carry |-> carry, last |-> last]

RECURSIVE IntoDyn(_)

\* a slip: the average seeded with 0.0 instead of left absent
IntoDynSeeded(self) ==
    CASE self.tag = "empty" -> Empty
      [] self.tag = "always_buy" -> AlwaysBuy(self.v)
      [] self.tag = "always_sell" -> AlwaysSell(self.v)
      [] self.tag = "threshold" -> Threshold(self.buy, self.sell)
      [] self.tag = "ema" ->
            ExponentialMovingAverage(IntoDyn(self.inner), self.carry, Some(FInt(0)))

\* Config::into_dyn
IntoDyn(self) ==
    CASE self.tag = "empty" -> Empty
      [] self.tag = "always_buy" -> AlwaysBuy(self.v)
      [] self.tag = "always_sell" -> AlwaysSell(self.v)
      [] self.tag = "threshold" -> Threshold(self.buy, self.sell)
      [] self.tag = "ema" ->
            ExponentialMovingAverage(IntoDyn(self.inner), self.carry, None)

---------------------------------------------------------------------------
(* The inputs: every value is exactly representable as an f64 *)

Prices == {FInt(10 * i) : i \in 0 .. MaxPrice}

\* 0, 0.5 and 1 lie in [0, 1]; 1.5 does not, and no code rejects it
Carries == {F64(0, 1), F64(1, 2), F64(1, 1), F64(3, 2)}

ThresholdAts == {FInt(10), FInt(30)}

\* `5`, `{numerator: 1, denominator: 2}`, `{numerator: 1, denominator: 0}`:
\* all three deserialize (u64 fields, no validation)
FractionInputs ==
    {FractionInputInt(5), FractionInputFraction(1, 2), FractionInputFraction(1, 0)}

ThresholdPoints ==
    {None} \cup {Some(ThresholdPoint(at, a)) : at \in ThresholdAts, a \in FractionInputs}

ThresholdConfigs == {ConfigThreshold(b, s) : b, s \in ThresholdPoints}

LeafConfigs ==
    {ConfigEmpty}
    \cup {ConfigAlwaysBuy(a) : a \in FractionInputs}
    \cup {ConfigAlwaysSell(a) : a \in FractionInputs}
    \cup ThresholdConfigs

NestedInner ==
    {ConfigEmpty,
     ConfigThreshold(Some(ThresholdPoint(FInt(10), FractionInputInt(5))),
                     Some(ThresholdPoint(FInt(30), FractionInputFraction(1, 2))))}

Configs ==
    LeafConfigs
    \cup {ConfigEma(c, i) : c \in Carries, i \in LeafConfigs}
    \cup {ConfigEma(c, ConfigEma(d, i)) : c, d \in Carries, i \in NestedInner}

\* the configurations the driver is run with
DriverConfigs ==
    {ConfigEmpty,
     ConfigAlwaysBuy(FractionInputInt(5)),
     ConfigAlwaysSell(FractionInputFraction(1, 0)),
     ConfigThreshold(Some(ThresholdPoint(FInt(10), FractionInputInt(5))),
                     Some(ThresholdPoint(FInt(30), FractionInputFraction(1, 2)))),
     ConfigEma(F64(1, 2),
               ConfigThreshold(Some(ThresholdPoint(FInt(10), FractionInputInt(5))),
                               Some(ThresholdPoint(FInt(30), FractionInputFraction(1, 2)))))}

\* the prices the pool reports to the driver
DriverPrices == {FInt(10), FInt(20), FInt(30)}

\* ExponentialMovingAverage { carry, inner: Threshold { buy, sell }, last: None }
\* written out by hand for a configuration of that shape
ManualConstruct(c) ==
    IF c.tag = "ema" /\ c.inner.tag = "threshold"
    THEN Some([type |-> "ExponentialMovingAverage",
               inner |-> [type |-> "Threshold",
                          buy |-> c.inner.buy,
                          sell |-> c.inner.sell],
               carry |-> c.carry,
               last |-> None])
    ELSE None

---------------------------------------------------------------------------
(* One strategy.trade(&context) call, on the built strategy and, when there *)
(* is one, on the hand-constructed strategy                                 *)

TradeCall(p) ==
    /\ ~panicked
    /\ \E r \in {trade(strategy, TradeContext(p))} :
          /\ strategy' = r.self
          /\ ret' = r.ret
          /\ panicked' = r.panicked
          /\ inner_ctx' = r.inner_ctx
          /\ inner_ret' = r.inner_ret
    /\ prices' = Append(prices, p)
    /\ IF manual = None
       THEN UNCHANGED <<manual, manual_ret, manual_panicked>>
       ELSE \E m \in {trade(manual[1], TradeContext(p))} :
               /\ manual' = Some(m.self)
               /\ manual_ret' = m.ret
               /\ manual_panicked' = m.panicked
    /\ UNCHANGED config

StrategyInit(cs) ==
    /\ config \in cs
    /\ strategy = IntoDyn(config)
    /\ manual = ManualConstruct(config)
    /\ prices = << >>
    /\ ret = None
    /\ panicked = FALSE
    /\ inner_ctx = << >>
    /\ inner_ret = None
    /\ manual_ret = None
    /\ manual_panicked = FALSE

---------------------------------------------------------------------------
(* Spec: a strategy built from any configuration, fed any prices *)

Init ==
    /\ StrategyInit(Configs)
    /\ pc = "idle"
    /\ last_block = None
    /\ block = 0
    /\ observed = << >>
    /\ trade_blocks = << >>
    /\ handed = << >>

Trade ==
    /\ Len(prices) < MaxCalls
    /\ \E p \in Prices : TradeCall(p)
    /\ UNCHANGED driver_vars

Next == Trade

Spec == Init /\ [][Next]_vars

---------------------------------------------------------------------------
(* DriverSpec: main() of main.rs *)

DriverInit ==
    /\ StrategyInit(DriverConfigs)
    /\ pc = "poll"
    /\ last_block = None
    /\ block = 0
    /\ observed = << >>
    /\ trade_blocks = << >>
    /\ handed = << >>

\* a slip: every reported number taken as a new block
IsNewBlockAlways(n, last) == TRUE

\* poll_next_block, line 200: `Some(n) != last_block`
IsNewBlock(n, last) == Some(n) # last

\* poll_next_block: get_block_number() answers n; a number other than the
\* last one is returned to main (lines 62-63), the last one again sleeps and
\* polls again
PollNextBlock ==
    /\ pc = "poll"
    /\ Len(observed) < MaxPolls
    /\ \E n \in 1 .. MaxBlock :
          /\ observed' = Append(observed, n)
          /\ IF IsNewBlock(n, last_block)
             THEN /\ block' = n
                  /\ last_block' = Some(n)
                  /\ pc' = "pool"
             ELSE UNCHANGED <<block, last_block, pc>>
    /\ UNCHANGED <<strategy_vars, trade_blocks, handed>>

\* get_block_number() fails: `.await?` returns the error from main
PollNextBlockErr ==
    /\ pc = "poll"
    /\ pc' = "aborted"
    /\ UNCHANGED <<strategy_vars, last_block, block, observed, trade_blocks, handed>>

\* lines 68-83: the pool is fetched and its price parsed
FetchPool ==
    /\ pc = "pool"
    /\ pc' = "trade"
    /\ UNCHANGED <<strategy_vars, last_block, block, observed, trade_blocks, handed>>

\* lines 77 and 82: the fetch or the parse fails
FetchPoolErr ==
    /\ pc = "pool"
    /\ pc' = "aborted"
    /\ UNCHANGED <<strategy_vars, last_block, block, observed, trade_blocks, handed>>

\* a slip: the loop goes on after a trade
AfterTradeLoop(r, p) == IF p THEN "aborted" ELSE "poll"

\* lines 86-89: where main goes after strategy.trade returned r (or panicked)
AfterTrade(r, p) ==
    IF p THEN "aborted" ELSE IF r = None THEN "poll" ELSE "execute"

\* line 86: strategy.trade(&context)
StrategyTrade ==
    /\ pc = "trade"
    /\ \E p \in DriverPrices : TradeCall(p)
    /\ trade_blocks' = Append(trade_blocks, block)
    /\ handed' = IF ret' = None THEN handed ELSE Append(handed, ret'[1])
    /\ pc' = AfterTrade(ret', panicked')
    /\ UNCHANGED <<last_block, block, observed>>

\* lines 92-148: the trade is executed and main returns Ok(())
Execute ==
    /\ pc = "execute"
    /\ pc' = "done"
    /\ UNCHANGED <<strategy_vars, last_block, block, observed, trade_blocks, handed>>

\* any `?` of lines 96-146
ExecuteErr ==
    /\ pc = "execute"
    /\ pc' = "aborted"
    /\ UNCHANGED <<strategy_vars, last_block, block, observed, trade_blocks, handed>>

DriverNext ==
    \/ PollNextBlock
    \/ PollNextBlockErr
    \/ FetchPool
    \/ FetchPoolErr
    \/ StrategyTrade
    \/ Execute
    \/ ExecuteErr

DriverSpec == DriverInit /\ [][DriverNext]_vars

---------------------------------------------------------------------------
(* The claims *)

Last(seq) == seq[Len(seq)]
Front(seq) == SubSeq(seq, 1, Len(seq) - 1)

\* s_0 = p_0, s_k = s_(k-1) * c + p_k * (1 - c), for a non-empty ps
RECURSIVE Smoothed(_, _)
Smoothed(ps, c) ==
    IF Len(ps) = 1
    THEN ps[1]
    ELSE FAdd(FMul(Smoothed(Front(ps), c), c), FMul(Last(ps), FSub(FInt(1), c)))

IsEma == config.tag = "ema"
Called == prices # << >>

\* C1: after any sequence of trade() calls on an ExponentialMovingAverage with
\* carry c, `last` is the s_n of the recurrence s_0 = p_0,
\* s_k = s_(k-1)*c + p_k*(1-c) over the raw prices; with c = 0 it is the latest
\* raw price and with c = 1 it is the first price.
C1_LastFollowsRecurrence ==
    /\ (IsEma /\ ~Called) => strategy.last = None
    /\ (IsEma /\ Called) =>
          /\ strategy.last = Some(Smoothed(prices, config.carry))
          /\ config.carry = FInt(0) => strategy.last = Some(Last(prices))
          /\ config.carry = FInt(1) => strategy.last = Some(prices[1])

\* carry 0.5 fed 10, 30, 20: s = 10, 20, 20
C1_Witness ==
    /\ IsEma
    /\ config.carry = F64(1, 2)
    /\ prices = <<FInt(10), FInt(30), FInt(20)>>
    /\ strategy.last = Some(FInt(20))

EmaOverEmpty == ConfigEma(F64(1, 2), ConfigEmpty)
Prices102030 == <<FInt(10), FInt(20), FInt(30)>>

\* C2 as stated: every trade() call on an ExponentialMovingAverage stores
\* Some(smoothed) in `last` whatever the inner strategy returns, and
\* Ema{carry 0.5, inner Null} fed 10, 20, 30 returns None each time and ends
\* with last = 17.5.
C2_Original ==
    /\ (IsEma /\ Called) => strategy.last = Some(Smoothed(prices, config.carry))
    /\ config = EmaOverEmpty => ret = None
    /\ (config = EmaOverEmpty /\ prices = Prices102030) =>
          strategy.last = Some(F64(35, 2))

\* C2 amended: every trade() call on an ExponentialMovingAverage stores
\* Some(smoothed) in `last` whatever the inner strategy returns (a call on
\* which the inner returns None, or panics, stores it as a call on which it
\* returns a trade does), and Ema{carry 0.5, inner Null} fed 10, 20, 30
\* returns None each time and ends with last = 22.5 (s = 10, 15, 22.5).
C2_LastStoredOnEveryCall ==
    /\ (IsEma /\ Called) => strategy.last = Some(Smoothed(prices, config.carry))
    /\ config = EmaOverEmpty => ret = None
    /\ (config = EmaOverEmpty /\ prices = Prices102030) =>
          strategy.last = Some(F64(45, 2))

\* the example's run, and its third call returned None
C2_Witness ==
    /\ config = EmaOverEmpty
    /\ prices = Prices102030
    /\ ret = None
    /\ ~panicked
    /\ strategy.last = Some(F64(45, 2))

\* C3: every trade() call on an ExponentialMovingAverage calls the inner
\* strategy exactly once, with the smoothed price it has just stored in `last`
\* (the raw price on the first call), and returns what the inner returned.
C3_InnerGetsSmoothedPrice ==
    (IsEma /\ Called) =>
        /\ Len(inner_ctx) = 1
        /\ strategy.last = Some(inner_ctx[1].price_lossy)
        /\ Len(prices) = 1 => inner_ctx[1].price_lossy = prices[1]
        /\ ret = inner_ret
        \* a stateless inner answers the smoothed price the same way again
        /\ config.inner.tag # "ema" =>
              /\ ret = trade(strategy.inner, TradeContext(strategy.last[1])).ret
              /\ panicked = trade(strategy.inner, TradeContext(strategy.last[1])).panicked

\* a later call, whose smoothed price is not the raw one, and the inner traded
C3_Witness ==
    /\ IsEma
    /\ config.inner.tag = "threshold"
    /\ Len(prices) >= 2
    /\ strategy.last # Some(Last(prices))
    /\ Len(inner_ctx) = 1
    /\ ret # None

IsThreshold == config.tag = "threshold"
BothPoints == IsThreshold /\ config.buy # None /\ config.sell # None
FLt(a, b) == ~FGe(a, b)

\* the amount n/d that a configured amount stands for
ClaimedAmount(a) ==
    IF a.kind = "Int"
    THEN [numerator |-> a.i, denominator |-> 1]
    ELSE [numerator |-> a.numerator, denominator |-> a.denominator]

\* C4: a Threshold with both points and buy.at < sell.at returns
\* Buy{buy.amount} for every price <= buy.at, Sell{sell.amount} for every
\* price >= sell.at and None for every price strictly between, on every call.
C4_Original ==
    (BothPoints /\ Called /\ FLt(config.buy[1].at, config.sell[1].at)) =>
        /\ ~panicked
        /\ FLe(Last(prices), config.buy[1].at) =>
              /\ ret # None
              /\ ret[1].kind = "Buy"
              /\ ret[1].amount = ClaimedAmount(config.buy[1].amount)
        /\ FGe(Last(prices), config.sell[1].at) =>
              /\ ret # None
              /\ ret[1].kind = "Sell"
              /\ ret[1].amount = ClaimedAmount(config.sell[1].amount)
        /\ (FLt(config.buy[1].at, Last(prices)) /\ FLt(Last(prices), config.sell[1].at)) =>
              ret = None

\* C5: when buy.at >= sell.at and the price is both <= buy.at and >= sell.at,
\* trade() returns Buy with the buy amount, never Sell.
C5_Original ==
    (/\ BothPoints
     /\ Called
     /\ FGe(config.buy[1].at, config.sell[1].at)
     /\ FLe(Last(prices), config.buy[1].at)
     /\ FGe(Last(prices), config.sell[1].at)) =>
        /\ ~panicked
        /\ ret # None
        /\ ret[1].kind = "Buy"
        /\ ret[1].amount = ClaimedAmount(config.buy[1].amount)

\* C7: trade() always succeeds: whatever the configuration (a carry outside
\* [0, 1], buy.at > sell.at, an amount with denominator 0) and the price, a
\* call returns None or a Trade and never panics.
C7_Original == ~panicked

\* the amounts a configuration holds
RECURSIVE AmountsOf(_)
AmountsOf(c) ==
    CASE c.tag = "empty" -> {}
      [] c.tag \in {"always_buy", "always_sell"} -> {c.v}
      [] c.tag = "threshold" ->
            {pt[1].amount : pt \in {q \in {c.buy, c.sell} : q # None}}
      [] c.tag = "ema" -> AmountsOf(c.inner)

ZeroDenominator(a) == a.kind = "Fraction" /\ a.denominator = 0

\* C8: the Fraction amount of every Trade that trade() returns has a
\* denominator other than 0, whatever the configuration.
C8_ReturnedDenominatorNonZero ==
    ret # None => ret[1].amount.denominator # 0

\* a strategy configured with a zero-denominator amount returned a Trade
C8_Witness ==
    /\ \E a \in AmountsOf(config) : ZeroDenominator(a)
    /\ ret # None
    /\ ret[1].amount.denominator # 0

\* C9: the strategy Config::into_dyn builds from Ema{carry, inner: Threshold}
\* and a hand-constructed ExponentialMovingAverage{carry, that Threshold,
\* last: None}, fed the same prices, return the same on every call.
C9_BuiltBehavesAsManual ==
    manual # None =>
        /\ ret = manual_ret
        /\ panicked = manual_panicked
        /\ strategy.last = manual[1].last

\* both returned a trade on a later call, on a smoothed price
C9_Witness ==
    /\ manual # None
    /\ Len(prices) >= 2
    /\ strategy.last # Some(Last(prices))
    /\ ret # None
    /\ manual_ret = ret

Distinct(seq) == \A i, j \in 1 .. Len(seq) : i # j => seq[i] # seq[j]
NonDecreasing(seq) == \A i, j \in 1 .. Len(seq) : i < j => seq[i] <= seq[j]

\* C6 as stated: whatever numbers the provider reports, no block number gets
\* more than one trade() call.
C6_Original == Distinct(trade_blocks)

\* C6 amended: no block number gets two trade() calls in a row (the driver
\* skips only a number equal to the last one it took), and when the numbers
\* the provider reports never decrease no block number gets more than one
\* trade() call; a number reported again after another one gets another call.
C6_NoRepeatInARow ==
    /\ \A i \in 1 .. Len(trade_blocks) - 1 : trade_blocks[i] # trade_blocks[i + 1]
    /\ NonDecreasing(observed) => Distinct(trade_blocks)

\* the provider repeated a number, which was skipped, and two blocks were traded on
C6_Witness ==
    /\ \E i \in 1 .. Len(observed) - 1 : observed[i] = observed[i + 1]
    /\ Len(trade_blocks) >= 2
    /\ NonDecreasing(observed)

\* C10: once a trade() call has returned Some(trade) the run makes no further
\* trade() call, and it hands at most one trade to execution.
C10_StopsAfterFirstTrade ==
    [][/\ handed # << >> => trade_blocks' = trade_blocks
       /\ Len(handed') <= 1]_vars

\* calls that returned None, then one that returned a trade, executed
C10_Witness ==
    /\ pc = "done"
    /\ Len(trade_blocks) >= 2
    /\ Len(handed) = 1

====
